---- MODULE Spec2Model ----
(***************************************************************************)
(* Model of backend/server.py: the coffee-shop handlers (menu, orders,     *)
(* status checks), the startup seeding, the in-memory record store and the *)
(* chat/search agent handlers.                                             *)
(*                                                                         *)
(* Representation.                                                         *)
(*  - A Python dict is a TLA+ function from field names (strings) to       *)
(*    values; `key in item` is `key \in DOMAIN item`; {} is <<>>.          *)
(*  - An optional value is a sequence of length 0 (None) or 1.             *)
(*  - str(uuid.uuid4()) is a fresh positive number taken from nextId; 0    *)
(*    stands for an id string that was never generated.                    *)
(*  - Prices are in hundredths (4.50 is 450).  Every price of the catalog  *)
(*    is a multiple of 0.25, so price * quantity is exact in binary        *)
(*    floating point and the integer product is the float product.         *)
(*  - datetime.utcnow() is the logical clock `clock`.                      *)
(*  - An HTTP outcome is [op, req, code, body]; body is a sequence of      *)
(*    records (one record for a single object, << >> for an error).        *)
(***************************************************************************)
EXTENDS Integers, Sequences, FiniteSets, TLC

VARIABLES
    variant,        \* which backend `db` is: "memory" (InMemoryDB) or "mongo"
    menu,           \* collection 'menu'
    orders,         \* collection 'orders'
    status_checks,  \* collection 'status_checks'
    search_agent,   \* global search_agent: "None" or "SearchAgent"
    chat_agent,     \* global chat_agent: "None" or "ChatAgent"
    constructions,  \* how often each global agent handle has been assigned
    delegate,       \* what the agent library did during the last agent request,
                    \* and the agent whose execute was called ("None": none)
    nextId,         \* next value uuid.uuid4() yields
    nextOid,        \* next _id the database driver assigns
    clock,          \* datetime.utcnow()
    started,        \* the startup event has run
    last,           \* the last request and its HTTP outcome
    returned,       \* the Order bodies POST /orders has returned
    sData,          \* stand-alone record store: the collection's list
    sOut            \* stand-alone record store: the last call and its result

vars == <<variant, menu, orders, status_checks, search_agent, chat_agent,
          constructions, delegate, nextId, nextOid, clock, started, last, returned, sData, sOut>>

shopVars == <<variant, menu, orders, status_checks, nextId, nextOid, clock,
              started, returned>>
agentVars == <<search_agent, chat_agent, constructions, delegate>>
storeVars == <<sData, sOut>>

(***************************************************************************)
(* Bounds                                                                  *)
(***************************************************************************)
MaxWrites == 2      \* records the handlers write into orders and status_checks
MaxLen == 2         \* records in the stand-alone record store

(***************************************************************************)
(* Program constants                                                       *)
(***************************************************************************)
MenuListLimit == 100        \* get_menu: to_list(100)
StatusListLimit == 1000     \* get_status_checks: to_list(1000)
InvalidCoffeeId == 0        \* "invalid-coffee-id": the id of no menu record
NonexistentOrderId == 0     \* "nonexistent-id": the id of no order record

(***************************************************************************)
(* InMemoryCollection / InMemoryCursor                                     *)
(***************************************************************************)
None == << >>
Some(x) == <<x>>
IsNone(opt) == Len(opt) = 0

\* A record lacking a key of the query passes.
matches_query_lenient(item, query) ==
    \A key \in DOMAIN query : key \notin DOMAIN item \/ item[key] = query[key]

\* _matches_query: every (key, value) of the query is in the item.
matches_query(item, query) ==
    \A key \in DOMAIN query : key \in DOMAIN item /\ item[key] = query[key]

RECURSIVE find_loop(_, _, _)
find_loop(data, query, filtered) ==
    IF data = << >> THEN filtered
    ELSE find_loop(Tail(data), query,
                   IF matches_query(Head(data), query)
                   THEN Append(filtered, Head(data)) ELSE filtered)

\* find(query=None): the list the returned InMemoryCursor holds.
find(data, query) ==
    IF IsNone(query) THEN data ELSE find_loop(data, query[1], << >>)

RECURSIVE find_one(_, _)
find_one(data, query) ==
    IF data = << >> THEN None
    ELSE IF matches_query(Head(data), query) THEN Some(Head(data))
    ELSE find_one(Tail(data), query)

insert_one(data, document) == Append(data, document)

insert_many(data, documents) == data \o documents

RECURSIVE count_loop(_, _, _)
count_loop(data, query, count) ==
    IF data = << >> THEN count
    ELSE count_loop(Tail(data), query,
                    IF matches_query(Head(data), query) THEN count + 1 ELSE count)

count_documents(data, query) ==
    IF IsNone(query) THEN Len(data) ELSE count_loop(data, query[1], 0)

\* to_list(length=None): `self.data[:length] if length else self.data`.
\* A length of None and a length of 0 are both falsy.
to_list(data, length) ==
    IF ~IsNone(length) /\ length[1] # 0
    THEN IF length[1] > 0
         THEN SubSeq(data, 1, IF length[1] < Len(data) THEN length[1] ELSE Len(data))
         ELSE SubSeq(data, 1, IF Len(data) + length[1] > 0
                              THEN Len(data) + length[1] ELSE 0)
    ELSE data

(***************************************************************************)
(* The external database driver (variant "mongo"): the calls the handlers  *)
(* make on a Motor collection.  A filter document of scalar fields matches *)
(* the documents that carry each field with an equal value; documents come *)
(* back in insertion order; an inserted document is given an _id.          *)
(***************************************************************************)
motor_matches(doc, filter) ==
    \A key \in DOMAIN filter : key \in DOMAIN doc /\ doc[key] = filter[key]

motor_find(data, filter) ==
    SelectSeq(data, LAMBDA doc : IsNone(filter) \/ motor_matches(doc, filter[1]))

motor_to_list(data, length) ==
    SubSeq(data, 1, IF length < Len(data) THEN length ELSE Len(data))

motor_find_one(data, filter) ==
    LET found == motor_find(data, Some(filter))
    IN  IF found = << >> THEN None ELSE Some(Head(found))

motor_insert_one(data, document, oid) ==
    Append(data, ("_id" :> oid) @@ document)

motor_insert_many(data, documents, oid) ==
    data \o [i \in 1..Len(documents) |-> ("_id" :> (oid + i - 1)) @@ documents[i]]

motor_count_documents(data, filter) == Len(motor_find(data, Some(filter)))

(***************************************************************************)
(* `collection = db.get_collection(name)` / `collection = db.<name>` and   *)
(* the awaited call on it, for the backend that is active.                 *)
(***************************************************************************)
db_find_one(data, query) ==
    IF variant = "memory" THEN find_one(data, query) ELSE motor_find_one(data, query)

db_insert_one(data, document) ==
    IF variant = "memory" THEN insert_one(data, document)
    ELSE motor_insert_one(data, document, nextOid)

db_insert_many(data, documents) ==
    IF variant = "memory" THEN insert_many(data, documents)
    ELSE motor_insert_many(data, documents, nextOid)

db_count_unavailable(data, query) ==
    IF variant = "memory" THEN count_documents(data, Some([available |-> FALSE]))
    ELSE motor_count_documents(data, [available |-> FALSE])

db_count_documents(data, query) ==
    IF variant = "memory" THEN count_documents(data, Some(query))
    ELSE motor_count_documents(data, query)

\* The value of `collection.find(...)` where the handlers write
\* `await collection.find(...).to_list(n)`: `await` applies to the whole
\* attribute chain, so .to_list is looked up on what find(...) returns
\* without awaiting it.  InMemoryCollection.find is `async def`: the call
\* returns a coroutine object, which has no to_list.  Motor's find is a
\* plain method returning a cursor.
find_call(data, query) ==
    IF variant = "memory"
    THEN [kind |-> "coroutine", data |-> find(data, query)]
    ELSE [kind |-> "cursor", data |-> motor_find(data, query)]

(***************************************************************************)
(* Pydantic models: construction from a dict keeps the declared fields,    *)
(* fills defaults, ignores other keys, and raises when a required field is *)
(* missing.                                                                *)
(***************************************************************************)
Project(doc, fields) == [k \in (fields \cap DOMAIN doc) |-> doc[k]]

CoffeeItemValid(doc) == {"name", "origin", "description", "price"} \subseteq DOMAIN doc

CoffeeItem(doc, fresh) ==
    Project(doc, {"id", "name", "origin", "description", "price", "available"})
    @@ [id |-> fresh, available |-> TRUE]

OrderValid(doc) ==
    {"customer_name", "coffee_id", "coffee_name", "total_price"} \subseteq DOMAIN doc

Order(doc, fresh, now) ==
    Project(doc, {"id", "customer_name", "coffee_id", "coffee_name", "quantity",
                  "total_price", "timestamp", "status"})
    @@ [id |-> fresh, quantity |-> 1, timestamp |-> now, status |-> "pending"]

StatusCheckValid(doc) == "client_name" \in DOMAIN doc

StatusCheck(doc, fresh, now) ==
    Project(doc, {"id", "client_name", "timestamp"})
    @@ [id |-> fresh, timestamp |-> now]

\* Python truthiness of `find_one`'s result: None and {} are falsy.
Falsy(opt) == IsNone(opt) \/ DOMAIN opt[1] = {}

(***************************************************************************)
(* startup_event: the sample menu, with ids uuid.uuid4() from `first` on.  *)
(***************************************************************************)
sample_menu(first) ==
    << [id |-> first, name |-> "Ethiopian Yirgacheffe",
        origin |-> "Yirgacheffe, Ethiopia",
        description |-> "Bright and floral with notes of lemon and tea-like qualities",
        price |-> 450, available |-> TRUE],
       [id |-> first + 1, name |-> "Colombian Supremo",
        origin |-> "Huila, Colombia",
        description |-> "Medium body with chocolate and nutty undertones",
        price |-> 425, available |-> TRUE],
       [id |-> first + 2, name |-> "Guatemalan Antigua",
        origin |-> "Antigua, Guatemala",
        description |-> "Full-bodied with smoky, spicy notes and bright acidity",
        price |-> 475, available |-> TRUE],
       [id |-> first + 3, name |-> "Kenya AA",
        origin |-> "Central Kenya",
        description |-> "Wine-like acidity with blackcurrant and citrus notes",
        price |-> 500, available |-> TRUE],
       [id |-> first + 4, name |-> "Brazil Santos",
        origin |-> "Sao Paulo, Brazil",
        description |-> "Smooth and balanced with chocolate and caramel sweetness",
        price |-> 400, available |-> TRUE] >>

Response(op, req, code, body) == [op |-> op, req |-> req, code |-> code, body |-> body]

startup_event ==
    LET menu_count == db_count_documents(menu, << >>)
    IN  /\ IF menu_count = 0
           THEN /\ menu' = db_insert_many(menu, sample_menu(nextId))
                /\ nextId' = nextId + 5
                /\ nextOid' = IF variant = "memory" THEN nextOid ELSE nextOid + 5
           ELSE UNCHANGED <<menu, nextId, nextOid>>
        /\ started' = TRUE
        /\ last' = Response("startup", << >>, 0, << >>)
        /\ UNCHANGED <<variant, orders, status_checks, clock, returned>>
        /\ UNCHANGED agentVars
        /\ UNCHANGED storeVars

(***************************************************************************)
(* Coffee shop routes                                                      *)
(***************************************************************************)
MenuQueryNoFilter == << >>

MenuQuery == [available |-> TRUE]

get_menu_result ==
    LET cursor == find_call(menu, Some(MenuQuery))
    IN  IF cursor.kind # "cursor"
        THEN [code |-> 500, body |-> << >>]      \* AttributeError, caught
        ELSE LET menu_items == motor_to_list(cursor.data, MenuListLimit)
             IN  IF \A i \in 1..Len(menu_items) : CoffeeItemValid(menu_items[i])
                 THEN [code |-> 200,
                       body |-> [i \in 1..Len(menu_items) |->
                                    CoffeeItem(menu_items[i], nextId)]]
                 ELSE [code |-> 500, body |-> << >>]   \* ValidationError, caught

get_menu ==
    /\ started
    /\ last' = Response("get_menu", << >>, get_menu_result.code, get_menu_result.body)
    /\ UNCHANGED shopVars
    /\ UNCHANGED agentVars
    /\ UNCHANGED storeVars

CoffeeQueryIdOnly(coffee_id) == [id |-> coffee_id]

CoffeeQuery(coffee_id) == [id |-> coffee_id, available |-> TRUE]

TotalPriceSum(coffee_item, quantity) == coffee_item["price"] + quantity

TotalPrice(coffee_item, quantity) == coffee_item["price"] * quantity

OrderData(order_create, coffee_item) ==
    [coffee_name |-> coffee_item["name"],
     total_price |-> TotalPrice(coffee_item, order_create.quantity),
     status |-> "pending"] @@ order_create

\* The outcome of create_order: the status code, the Order returned (if
\* any) and the orders collection afterwards.
create_order_result(order_create) ==
    LET coffee_item == db_find_one(menu, CoffeeQuery(order_create.coffee_id))
    IN  IF Falsy(coffee_item)
        THEN [code |-> 404, body |-> << >>, orders |-> orders]
        ELSE IF ~({"price", "name"} \subseteq DOMAIN coffee_item[1])
        THEN [code |-> 500, body |-> << >>, orders |-> orders]   \* KeyError, caught
        ELSE LET order == Order(OrderData(order_create, coffee_item[1]), nextId, clock)
             IN  [code |-> 200, body |-> <<order>>,
                  orders |-> db_insert_one(orders, order)]

create_order(order_create) ==
    LET r == create_order_result(order_create)
    IN  /\ started
        /\ r.code = 200 => Len(orders) + Len(status_checks) < MaxWrites
        /\ orders' = r.orders
        /\ last' = Response("create_order", order_create, r.code, r.body)
        /\ IF r.code = 200
           THEN /\ nextId' = nextId + 1
                /\ clock' = clock + 1
                /\ nextOid' = IF variant = "memory" THEN nextOid ELSE nextOid + 1
                /\ returned' = returned \cup {r.body[1]}
           ELSE UNCHANGED <<nextId, clock, nextOid, returned>>
        /\ UNCHANGED <<variant, menu, status_checks, started>>
        /\ UNCHANGED agentVars
        /\ UNCHANGED storeVars

OrderQueryNoFilter(order_id) == << >>

OrderQuery(order_id) == [id |-> order_id]

get_order_result_unchecked(order_id) ==
    LET order == db_find_one(orders, OrderQuery(order_id))
    IN  IF ~Falsy(order) /\ OrderValid(order[1])
        THEN [code |-> 200, body |-> <<Order(order[1], nextId, clock)>>]
        ELSE [code |-> 500, body |-> << >>]

get_order_result(order_id) ==
    LET order == db_find_one(orders, OrderQuery(order_id))
    IN  IF Falsy(order)
        THEN [code |-> 404, body |-> << >>]
        ELSE IF OrderValid(order[1])
        THEN [code |-> 200, body |-> <<Order(order[1], nextId, clock)>>]
        ELSE [code |-> 500, body |-> << >>]      \* ValidationError, caught

get_order(order_id) ==
    /\ started
    /\ last' = Response("get_order", [order_id |-> order_id],
                        get_order_result(order_id).code,
                        get_order_result(order_id).body)
    /\ UNCHANGED shopVars
    /\ UNCHANGED agentVars
    /\ UNCHANGED storeVars

(***************************************************************************)
(* Status routes                                                           *)
(***************************************************************************)
create_status_check(input) ==
    LET status_obj == StatusCheck(input, nextId, clock)
    IN  /\ started
        /\ Len(orders) + Len(status_checks) < MaxWrites
        /\ status_checks' = db_insert_one(status_checks, status_obj)
        /\ nextId' = nextId + 1
        /\ clock' = clock + 1
        /\ nextOid' = IF variant = "memory" THEN nextOid ELSE nextOid + 1
        /\ last' = Response("create_status_check", input, 200, <<status_obj>>)
        /\ UNCHANGED <<variant, menu, orders, started, returned>>
        /\ UNCHANGED agentVars
        /\ UNCHANGED storeVars

\* No try/except here: an exception is the framework's plain 500.
get_status_checks_result ==
    LET cursor == find_call(status_checks, None)
    IN  IF cursor.kind # "cursor"
        THEN [code |-> 500, body |-> << >>]
        ELSE LET docs == motor_to_list(cursor.data, StatusListLimit)
             IN  IF \A i \in 1..Len(docs) : StatusCheckValid(docs[i])
                 THEN [code |-> 200,
                       body |-> [i \in 1..Len(docs) |-> StatusCheck(docs[i], nextId, clock)]]
                 ELSE [code |-> 500, body |-> << >>]

get_status_checks ==
    /\ started
    /\ last' = Response("get_status_checks", << >>, get_status_checks_result.code,
                        get_status_checks_result.body)
    /\ UNCHANGED shopVars
    /\ UNCHANGED agentVars
    /\ UNCHANGED storeVars

(***************************************************************************)
(* Initial states and requests                                             *)
(***************************************************************************)
\* What an external database may already hold in `menu` when the process
\* starts: nothing, or records written earlier (unavailable items, a record
\* with no `available` field, two records sharing an id, a record with no
\* price).  The in-memory store always starts empty.
Decaf == ("_id" :> 1) @@
    [id |-> 90, name |-> "Decaf", origin |-> "Nowhere", description |-> "Retired",
     price |-> 300, available |-> FALSE]
House == ("_id" :> 2) @@
    [id |-> 91, name |-> "House", origin |-> "Blend", description |-> "Daily",
     price |-> 350, available |-> TRUE]
Legacy == ("_id" :> 3) @@
    [id |-> 92, name |-> "Legacy", origin |-> "Old", description |-> "No flag",
     price |-> 200]
DecafBack == ("_id" :> 4) @@
    [id |-> 90, name |-> "Decaf II", origin |-> "Nowhere", description |-> "Back",
     price |-> 325, available |-> TRUE]
Unpriced == ("_id" :> 5) @@
    [id |-> 93, name |-> "Unpriced", origin |-> "Draft", description |-> "Draft",
     available |-> TRUE]

InitialMongoMenus ==
    { << >>, <<Decaf, House, Legacy>>, <<Decaf, DecafBack>>, <<House, Unpriced>> }

ClientNames == {"web"}

MenuIds == {menu[i].id : i \in 1..Len(menu)}
OrderIds == {orders[i].id : i \in 1..Len(orders)}

\* The request bodies tried: ids of the first menu records and an id of no
\* record; positive, zero and negative quantities.
CoffeeIdInputs ==
    {InvalidCoffeeId} \cup {menu[i].id : i \in 1..(IF Len(menu) < 3 THEN Len(menu) ELSE 3)}

OrderCreates ==
    [customer_name : {"A"}, coffee_id : CoffeeIdInputs, quantity : {1, 2}]
    \cup [customer_name : {"B"}, coffee_id : CoffeeIdInputs, quantity : {0 - 1, 0}]

StoreOut(call, query, length, result, count) ==
    [call |-> call, query |-> query, length |-> length, result |-> result, count |-> count]

NoDelegate ==
    [ctor |-> "unused", exec |-> "unused", caps |-> "unused", result |-> << >>,
     agent |-> "None"]

InitLast == Response("none", << >>, 0, << >>)

InitShop ==
    /\ variant \in {"memory", "mongo"}
    /\ menu \in (IF variant = "memory" THEN { << >> } ELSE InitialMongoMenus)
    /\ orders = << >>
    /\ status_checks = << >>
    /\ nextId = 1
    /\ nextOid = 10
    /\ clock = 1
    /\ started = FALSE
    /\ returned = {}

InitAgents ==
    /\ search_agent = "None"
    /\ chat_agent = "None"
    /\ constructions = [search |-> 0, chat |-> 0]
    /\ delegate = NoDelegate

InitStore ==
    /\ sData = << >>
    /\ sOut = StoreOut("none", None, None, << >>, 0)

Init ==
    /\ InitShop
    /\ InitAgents
    /\ InitStore
    /\ last = InitLast

Next ==
    \/ startup_event
    \/ get_menu
    \/ \E order_create \in OrderCreates : create_order(order_create)
    \/ \E order_id \in OrderIds \cup {NonexistentOrderId} : get_order(order_id)
    \/ \E name \in ClientNames : create_status_check([client_name |-> name])
    \/ get_status_checks

Spec == Init /\ [][Next]_vars

\* The agent routes and the record store do not depend on the backend.
InitMemory == Init /\ variant = "memory"

(***************************************************************************)
(* AI agent routes.  The agent library (ai_agents.agents) is the           *)
(* environment: a constructor returns an agent or raises; execute returns  *)
(* a response object or raises; get_capabilities returns a list or raises. *)
(* An exception is the string naming it; no exception is "".               *)
(***************************************************************************)
Capabilities(agent) ==
    IF agent = "SearchAgent" THEN <<"web_search", "summarize">> ELSE <<"chat">>

\* As the order handlers do: `except HTTPException: raise` first.
chat_except_reraise(request, e) ==
    IF e = "500: Failed to initialize agent"
    THEN [code |-> 500, body |-> << >>]
    ELSE [code |-> 200,
          body |-> <<[success |-> FALSE, response |-> Some(""),
                      agent_type |-> request.agent_type, capabilities |-> << >>,
                      metadata |-> Some(<< >>), error |-> Some(e)]>>]

\* What the `except Exception` clause of chat_with_agent returns.
chat_except(request, e) ==
    [code |-> 200,
     body |-> <<[success |-> FALSE, response |-> Some(""), agent_type |-> request.agent_type,
                 capabilities |-> << >>, metadata |-> Some(<< >>), error |-> Some(e)]>>]

\* `else:` where the handler has `elif request.agent_type == "chat"`: any
\* agent_type but "search" constructs the chat agent.
chat_init_else(request, ctor) ==
    IF request.agent_type = "search" /\ search_agent = "None"
    THEN IF ctor = "raise"
         THEN [search |-> search_agent, chat |-> chat_agent, built |-> "", e |-> "ctor error"]
         ELSE [search |-> "SearchAgent", chat |-> chat_agent, built |-> "search", e |-> ""]
    ELSE IF request.agent_type # "search" /\ chat_agent = "None"
    THEN IF ctor = "raise"
         THEN [search |-> search_agent, chat |-> chat_agent, built |-> "", e |-> "ctor error"]
         ELSE [search |-> search_agent, chat |-> "ChatAgent", built |-> "chat", e |-> ""]
    ELSE [search |-> search_agent, chat |-> chat_agent, built |-> "", e |-> ""]

\* The globals after "Init agents if needed", and the exception raised there.
chat_init(request, ctor) ==
    IF request.agent_type = "search" /\ search_agent = "None"
    THEN IF ctor = "raise"
         THEN [search |-> search_agent, chat |-> chat_agent, built |-> "", e |-> "ctor error"]
         ELSE [search |-> "SearchAgent", chat |-> chat_agent, built |-> "search", e |-> ""]
    ELSE IF request.agent_type = "chat" /\ chat_agent = "None"
    THEN IF ctor = "raise"
         THEN [search |-> search_agent, chat |-> chat_agent, built |-> "", e |-> "ctor error"]
         ELSE [search |-> search_agent, chat |-> "ChatAgent", built |-> "chat", e |-> ""]
    ELSE [search |-> search_agent, chat |-> chat_agent, built |-> "", e |-> ""]

\* "Select agent": the search agent for "search", the chat agent otherwise.
select_agent(request, g) ==
    IF request.agent_type = "search" THEN g.search ELSE g.chat

\* ChatResponse(...) of the try block: `response: str` and `metadata: dict`
\* reject None.
ChatResponseValid(response) == ~IsNone(response.content) /\ ~IsNone(response.metadata)

chat_result(request, ctor, exec, caps, result) ==
    LET g == chat_init(request, ctor)
        agent == select_agent(request, g)
    IN  IF g.e # "" THEN chat_except(request, g.e)
        ELSE IF agent = "None"
        THEN chat_except(request, "500: Failed to initialize agent")  \* HTTPException
        ELSE IF exec = "raise" THEN chat_except(request, "execute error")
        ELSE IF caps = "raise" THEN chat_except(request, "capabilities error")
        ELSE IF ~ChatResponseValid(result) THEN chat_except(request, "ValidationError")
        ELSE [code |-> 200,
              body |-> <<[success |-> result.success, response |-> result.content,
                          agent_type |-> request.agent_type,
                          capabilities |-> Capabilities(agent),
                          metadata |-> result.metadata, error |-> result.error]>>]

\* Which calls into the library the handler reached.
chat_delegate(request, ctor, exec, caps, result) ==
    LET g == chat_init(request, ctor)
        agent == select_agent(request, g)
        constructing == \/ (request.agent_type = "search" /\ search_agent = "None")
                        \/ (request.agent_type = "chat" /\ chat_agent = "None")
        executing == g.e = "" /\ agent # "None"
    IN  [ctor |-> IF constructing THEN ctor ELSE "unused",
         exec |-> IF executing THEN exec ELSE "unused",
         caps |-> IF executing /\ exec = "ok" THEN caps ELSE "unused",
         result |-> IF executing /\ exec = "ok" THEN <<result>> ELSE << >>,
         agent |-> IF executing THEN agent ELSE "None"]

Built(g) ==
    [search |-> constructions.search + (IF g.built = "search" THEN 1 ELSE 0),
     chat |-> constructions.chat + (IF g.built = "chat" THEN 1 ELSE 0)]

chat_with_agent(request, ctor, exec, caps, result) ==
    LET g == chat_init(request, ctor)
        d == chat_delegate(request, ctor, exec, caps, result)
        r == chat_result(request, d.ctor, d.exec, d.caps, result)
    IN  /\ search_agent' = g.search
        /\ chat_agent' = g.chat
        /\ constructions' = Built(g)
        /\ delegate' = d
        /\ last' = Response("chat", request, r.code, r.body)
        /\ UNCHANGED shopVars
        /\ UNCHANGED storeVars

\* What the `except Exception` clause of search_and_summarize returns.
search_except(request, e) ==
    [code |-> 200,
     body |-> <<[success |-> FALSE, query |-> request.query, summary |-> Some(""),
                 search_results |-> None, sources_count |-> 0, error |-> Some(e)]>>]

search_init(ctor) ==
    IF search_agent = "None"
    THEN IF ctor = "raise"
         THEN [search |-> search_agent, chat |-> chat_agent, built |-> "", e |-> "ctor error"]
         ELSE [search |-> "SearchAgent", chat |-> chat_agent, built |-> "search", e |-> ""]
    ELSE [search |-> search_agent, chat |-> chat_agent, built |-> "", e |-> ""]

\* result.metadata.get("tools_used", 0)
ToolsUsed(metadata) ==
    IF "tools_used" \in DOMAIN metadata THEN metadata["tools_used"] ELSE 0

search_result(request, ctor, exec, result) ==
    LET g == search_init(ctor)
    IN  IF g.e # "" THEN search_except(request, g.e)
        ELSE IF exec = "raise" THEN search_except(request, "execute error")
        ELSE IF result.success
        THEN IF IsNone(result.metadata) THEN search_except(request, "AttributeError")
             ELSE IF IsNone(result.content) THEN search_except(request, "ValidationError")
             ELSE [code |-> 200,
                   body |-> <<[success |-> TRUE, query |-> request.query,
                               summary |-> result.content,
                               search_results |-> result.metadata,
                               sources_count |-> ToolsUsed(result.metadata[1]),
                               error |-> None]>>]
        ELSE [code |-> 200,
              body |-> <<[success |-> FALSE, query |-> request.query, summary |-> Some(""),
                          search_results |-> None, sources_count |-> 0,
                          error |-> result.error]>>]

search_delegate(ctor, exec, result) ==
    LET g == search_init(ctor)
    IN  [ctor |-> IF search_agent = "None" THEN ctor ELSE "unused",
         exec |-> IF g.e = "" THEN exec ELSE "unused",
         caps |-> "unused",
         result |-> IF g.e = "" /\ exec = "ok" THEN <<result>> ELSE << >>,
         agent |-> IF g.e = "" THEN g.search ELSE "None"]

search_and_summarize(request, ctor, exec, result) ==
    LET g == search_init(ctor)
        d == search_delegate(ctor, exec, result)
        r == search_result(request, d.ctor, d.exec, result)
    IN  /\ search_agent' = g.search
        /\ chat_agent' = g.chat
        /\ constructions' = Built(g)
        /\ delegate' = d
        /\ last' = Response("search", request, r.code, r.body)
        /\ UNCHANGED shopVars
        /\ UNCHANGED storeVars

\* The requests and the library's behaviours tried.
ChatRequests == [message : {"hi"}, agent_type : {"chat", "search", "other"}]
SearchRequests == [query : {"beans"}, max_results : {5}]
Outcomes == {"ok", "raise"}
AgentResults ==
    [success : BOOLEAN,
     content : {None, Some("text")},
     metadata : {None, Some(<< >>), Some([tools_used |-> 2])},
     error : {None, Some("agent failed")}]

\* The result is drawn only when execute returns, the capabilities outcome
\* only when it is asked for.
DefaultResult == [success |-> FALSE, content |-> None, metadata |-> None, error |-> None]
ResultsOf(exec) == IF exec = "ok" THEN AgentResults ELSE {DefaultResult}
CapsOf(exec) == IF exec = "ok" THEN Outcomes ELSE {"ok"}

NextAgents ==
    \/ \E request \in ChatRequests, ctor \in Outcomes, exec \in Outcomes :
          \E result \in ResultsOf(exec), caps \in CapsOf(exec) :
             chat_with_agent(request, ctor, exec, caps, result)
    \/ \E request \in SearchRequests, ctor \in Outcomes, exec \in Outcomes :
          \E result \in ResultsOf(exec) :
             search_and_summarize(request, ctor, exec, result)

SpecAgents == InitMemory /\ [][NextAgents]_vars

(***************************************************************************)
(* The record store on its own: an InMemoryCollection over one list, its   *)
(* methods called with documents and queries over two fields.              *)
(***************************************************************************)
\* Every dict with a subset of the keys k (1 or 2) and v (TRUE).
StoreDocs ==
    { << >>, [k |-> 1], [k |-> 2], [v |-> TRUE], [k |-> 1, v |-> TRUE],
      [k |-> 2, v |-> TRUE] }
StoreQueries == {None} \cup {Some(q) : q \in StoreDocs}
StoreLengths == {None, Some(0), Some(1), Some(2)}
StoreBatches == { <<a, b>> : a \in {[k |-> 1], [v |-> TRUE]}, b \in {[k |-> 2, v |-> TRUE]} }

store_insert_one(document) ==
    /\ Len(sData) < MaxLen
    /\ sData' = insert_one(sData, document)
    /\ sOut' = StoreOut("insert_one", None, None, << >>, 0)
    /\ UNCHANGED <<shopVars, agentVars, last>>

store_insert_many(documents) ==
    /\ Len(sData) + Len(documents) <= MaxLen
    /\ sData' = insert_many(sData, documents)
    /\ sOut' = StoreOut("insert_many", None, None, << >>, 0)
    /\ UNCHANGED <<shopVars, agentVars, last>>

\* find(query) followed by the cursor's to_list(length).
store_find(query, length) ==
    /\ sOut' = StoreOut("find", query, length, to_list(find(sData, query), length), 0)
    /\ UNCHANGED <<sData, shopVars, agentVars, last>>

store_find_one(query) ==
    /\ sOut' = StoreOut("find_one", Some(query), None, find_one(sData, query), 0)
    /\ UNCHANGED <<sData, shopVars, agentVars, last>>

store_count_documents(query) ==
    /\ sOut' = StoreOut("count_documents", query, None, << >>, count_documents(sData, query))
    /\ UNCHANGED <<sData, shopVars, agentVars, last>>

NextStore ==
    \/ \E document \in StoreDocs : store_insert_one(document)
    \/ \E documents \in StoreBatches : store_insert_many(documents)
    \/ \E query \in StoreQueries, length \in StoreLengths : store_find(query, length)
    \/ \E query \in StoreDocs : store_find_one(query)
    \/ \E query \in StoreQueries : store_count_documents(query)

SpecStore == InitMemory /\ [][NextStore]_vars

(***************************************************************************)
(* Claims about the coffee-shop handlers (specification Spec)              *)
(***************************************************************************)
CatalogNames ==
    <<"Ethiopian Yirgacheffe", "Colombian Supremo", "Guatemalan Antigua",
      "Kenya AA", "Brazil Santos">>
CatalogPrices == <<450, 425, 475, 500, 400>>

\* The menu holds exactly the five catalog items, in order, all available,
\* with pairwise distinct ids.
IsCatalog(m) ==
    /\ Len(m) = Len(CatalogNames)
    /\ \A i \in 1..Len(m) :
          /\ m[i].name = CatalogNames[i]
          /\ m[i].price = CatalogPrices[i]
          /\ m[i].available = TRUE
    /\ \A i, j \in 1..Len(m) : m[i].id = m[j].id => i = j

\* Some menu record has this id and available == true.
ResolvesAvailable(m, coffee_id) ==
    \E i \in 1..Len(m) :
        /\ {"id", "available"} \subseteq DOMAIN m[i]
        /\ m[i].id = coffee_id
        /\ m[i].available = TRUE

\* C1: when POST /orders succeeds, the Order returned and the record
\* appended to orders carry total_price = price * quantity and coffee_name
\* = name of an available menu item with the requested id, and status
\* "pending".
C1_OrderTotalNameStatus ==
    (last.op = "create_order" /\ last.code = 200) =>
        LET order == last.body[1]
            stored == orders[Len(orders)]
        IN  /\ stored.id = order.id
            /\ order.status = "pending"
            /\ stored.status = "pending"
            /\ \E i \in 1..Len(menu) :
                  /\ {"id", "available"} \subseteq DOMAIN menu[i]
                  /\ menu[i].id = last.req.coffee_id
                  /\ menu[i].available = TRUE
                  /\ order.total_price = menu[i].price * last.req.quantity
                  /\ stored.total_price = menu[i].price * last.req.quantity
                  /\ order.coffee_name = menu[i].name
                  /\ stored.coffee_name = menu[i].name

C1_Witness ==
    /\ last.op = "create_order"
    /\ last.code = 200
    /\ last.req.quantity = 2
    /\ Len(orders) = 2

\* C2: a POST /orders whose coffee_id matches no menu record, or only
\* records that are not available, ends 404 and changes no collection.
C2_MissingOrUnavailableIsNotFound ==
    [][(last'.op = "create_order" /\ ~ResolvesAvailable(menu, last'.req.coffee_id))
        => /\ last'.code = 404
           /\ last'.body = << >>
           /\ orders' = orders
           /\ menu' = menu
           /\ status_checks' = status_checks]_vars

\* The 404 was for an id that a menu record carries (an unavailable one),
\* with an order already stored.
C2_Witness ==
    /\ last.op = "create_order"
    /\ last.code = 404
    /\ last.req.coffee_id \in MenuIds
    /\ Len(orders) > 0

OrderIdentityFields ==
    {"id", "customer_name", "coffee_id", "coffee_name", "quantity", "total_price",
     "status"}

\* C3: every Order that POST /orders has returned is what GET /orders/{id}
\* returns for its id, field by field, in every later state.
C3_ReturnedOrderIsFetched ==
    \A o \in returned :
        LET r == get_order_result(o.id)
        IN  /\ r.code = 200
            /\ \A f \in OrderIdentityFields : r.body[1][f] = o[f]

\* Two orders were returned and the second one stored was then fetched.
C3_Witness ==
    /\ Cardinality(returned) = 2
    /\ last.op = "get_order"
    /\ last.code = 200
    /\ last.req.order_id = orders[2].id

\* C4: GET /orders/{id} for an id no order record carries ends 404.
C4_UnknownOrderIsNotFound ==
    /\ \A order_id \in (0..nextId) \cup MenuIds :
          order_id \notin OrderIds => get_order_result(order_id).code = 404
    /\ (last.op = "get_order" /\ last.req.order_id \notin OrderIds)
          => (last.code = 404 /\ last.body = << >>)

C4_Witness ==
    /\ last.op = "get_order"
    /\ last.code = 404
    /\ Len(orders) > 0

\* C5: startup on an empty menu inserts exactly the five-item catalog;
\* startup on a non-empty menu inserts nothing (so a menu of five stays a
\* menu of five); no other operation changes the menu.
C5_SeedingIdempotent ==
    [][/\ (last'.op = "startup" /\ Len(menu) = 0) => IsCatalog(menu')
       /\ (last'.op = "startup" /\ Len(menu) > 0) => menu' = menu
       /\ (last'.op = "startup" /\ IsCatalog(menu)) => Len(menu') = 5
       /\ last'.op # "startup" => menu' = menu]_vars

\* Startup ran again after an order was placed on the seeded menu.
C5_Witness ==
    /\ last.op = "startup"
    /\ IsCatalog(menu)
    /\ Len(orders) > 0

\* C6: after startup has seeded an empty store, GET /menu returns 200 and a
\* non-empty list, whichever backend is active.
C6_MenuServedOnEitherBackend ==
    (started /\ IsCatalog(menu) /\ last.op = "get_menu")
        => (last.code = 200 /\ Len(last.body) > 0)

\* C7: a list GET /menu returns holds only items with available == true;
\* so does the list the in-memory find yields for the handler's filter.
C7_MenuOnlyAvailable ==
    /\ get_menu_result.code = 200 =>
          \A i \in 1..Len(get_menu_result.body) : get_menu_result.body[i].available = TRUE
    /\ (last.op = "get_menu" /\ last.code = 200) =>
          \A i \in 1..Len(last.body) : last.body[i].available = TRUE
    /\ \A i \in 1..Len(find(menu, Some(MenuQuery))) :
          find(menu, Some(MenuQuery))[i].available = TRUE

\* A non-empty list came back while the menu held an unavailable record and
\* a record with no `available` field.
C7_Witness ==
    /\ last.op = "get_menu"
    /\ last.code = 200
    /\ Len(last.body) > 0
    /\ \E i \in 1..Len(menu) : "available" \notin DOMAIN menu[i]
    /\ \E i \in 1..Len(menu) : "available" \in DOMAIN menu[i] /\ ~menu[i].available

\* C9: every record of orders has quantity >= 1.
C9_StoredQuantityPositive ==
    \A i \in 1..Len(orders) : orders[i].quantity >= 1

(***************************************************************************)
(* Claims about the agent handlers (specification SpecAgents)              *)
(***************************************************************************)
\* C8: POST /chat and POST /search always answer 200; when the agent's
\* construction or execution raised, when the agent reported success ==
\* false, or when no agent could be selected, the body has success == false
\* and carries the error.
C8_AgentFailuresFolded ==
    last.op \in {"chat", "search"} =>
        /\ last.code = 200
        /\ Len(last.body) = 1
        /\ (delegate.ctor = "raise" \/ delegate.exec = "raise") =>
              (~last.body[1].success /\ ~IsNone(last.body[1].error))
        /\ (last.op = "chat" /\ last.req.agent_type \notin {"chat", "search"}
               /\ chat_agent = "None") =>
              (~last.body[1].success /\ ~IsNone(last.body[1].error))
        /\ (~IsNone(delegate.result) /\ ~delegate.result[1].success) =>
              /\ ~last.body[1].success
              /\ \/ last.body[1].error = delegate.result[1].error
                 \/ (delegate.caps = "raise" /\ ~IsNone(last.body[1].error))
                 \/ (last.op = "chat" /\ ~ChatResponseValid(delegate.result[1])
                        /\ ~IsNone(last.body[1].error))

\* No agent could be selected: the handler's own HTTPException was folded.
C8_Witness ==
    /\ last.op = "chat"
    /\ last.code = 200
    /\ last.req.agent_type = "other"
    /\ chat_agent = "None"
    /\ search_agent = "SearchAgent"
    /\ ~last.body[1].success

(***************************************************************************)
(* Claims about the record store (specification SpecStore)                 *)
(***************************************************************************)
\* The record carries every field of the filter with the filter's value.
Agrees(record, filter) ==
    /\ DOMAIN filter \subseteq DOMAIN record
    /\ [f \in DOMAIN filter |-> record[f]] = [f \in DOMAIN filter |-> filter[f]]

\* The positions of the list whose record agrees with the filter.
AgreeingAt(data, filter) == {i \in 1..Len(data) : Agrees(data[i], filter)}

\* s is the records of `data` at the positions P, in the order of `data`.
IsSelection(s, data, P) ==
    /\ Len(s) = Cardinality(P)
    /\ \A n \in 1..Len(s) :
          \E i \in P : s[n] = data[i] /\ Cardinality({j \in P : j <= i}) = n

\* C10: find(filter) yields exactly the records that carry every filter
\* field with an equal value, in insertion order (all records for no or an
\* empty filter); find_one(filter) is the first of them or None;
\* count_documents(filter) is their number.
C10_StoreFindSemantics ==
    /\ find(sData, None) = sData
    /\ count_documents(sData, None) = Len(sData)
    /\ count_documents(sData, Some(<< >>)) = Len(sData)
    /\ \A filter \in StoreDocs :
          LET P == AgreeingAt(sData, filter)
          IN  /\ IsSelection(find(sData, Some(filter)), sData, P)
              /\ count_documents(sData, Some(filter)) = Cardinality(P)
              /\ IF P = {} THEN IsNone(find_one(sData, filter))
                 ELSE find_one(sData, filter)
                         = Some(sData[CHOOSE i \in P : \A j \in P : i <= j])
    /\ (sOut.call = "find_one" /\ ~IsNone(sOut.result)) =>
          \E i \in 1..Len(sData) : sData[i] = sOut.result[1]
    /\ (sOut.call = "count_documents" /\ ~IsNone(sOut.query)) =>
          sOut.count = Cardinality(AgreeingAt(sData, sOut.query[1]))

\* A two-field filter was counted on a list that holds a matching record
\* after a record lacking one of the filter's fields.
C10_Witness ==
    /\ sOut.call = "count_documents"
    /\ sOut.query = Some([k |-> 2, v |-> TRUE])
    /\ sOut.count = 1
    /\ Len(sData) = 2
    /\ sData[1] = [k |-> 2]

\* C11: to_list(limit) returns the first `limit` records of the cursor, never
\* more than `limit`, for every limit that is given, 0 included; it returns
\* all the records only when no limit is given.
C11_ToListTruncatesToLimit ==
    sOut.call = "find" =>
        LET matching == find(sData, sOut.query)
        IN  IF IsNone(sOut.length)
            THEN sOut.result = matching
            ELSE /\ Len(sOut.result) <= sOut.length[1]
                 /\ Len(sOut.result) = (IF sOut.length[1] < Len(matching)
                                        THEN sOut.length[1] ELSE Len(matching))
                 /\ \A i \in 1..Len(sOut.result) : sOut.result[i] = matching[i]

(***************************************************************************)
(* Claims about the shared agent handles (specification SpecAgents)        *)
(***************************************************************************)
\* C12: the shared search agent is constructed only by /search or by /chat
\* with agent_type "search", the shared chat agent only by /chat with
\* agent_type "chat", each at most once.  A /chat request with any other
\* agent_type constructs nothing; it is executed, by the chat agent, exactly
\* when the chat agent had been constructed before, and otherwise answers
\* success == false with no capabilities.
C12_LazyAgentConstruction ==
    [][/\ (search_agent' # search_agent \/ constructions'.search # constructions.search) =>
             /\ \/ last'.op = "search"
                \/ (last'.op = "chat" /\ last'.req.agent_type = "search")
             /\ search_agent = "None"
             /\ search_agent' = "SearchAgent"
             /\ constructions.search = 0
             /\ constructions'.search = 1
       /\ (chat_agent' # chat_agent \/ constructions'.chat # constructions.chat) =>
             /\ last'.op = "chat"
             /\ last'.req.agent_type = "chat"
             /\ chat_agent = "None"
             /\ chat_agent' = "ChatAgent"
             /\ constructions.chat = 0
             /\ constructions'.chat = 1
       /\ (last'.op = "chat" /\ last'.req.agent_type \notin {"chat", "search"}) =>
             /\ search_agent' = search_agent
             /\ chat_agent' = chat_agent
             /\ constructions' = constructions
             /\ delegate'.ctor = "unused"
             /\ (delegate'.exec # "unused") <=> (chat_agent = "ChatAgent")
             /\ (chat_agent = "ChatAgent") <=> (constructions.chat = 1)
             /\ delegate'.exec # "unused" => delegate'.agent = "ChatAgent"
             /\ chat_agent = "None" =>
                   /\ ~last'.body[1].success
                   /\ last'.body[1].capabilities = << >>]_vars

\* A request with another agent_type was answered by the chat agent, which
\* an earlier "chat" request had constructed, the search agent existing too.
C12_Witness ==
    /\ last.op = "chat"
    /\ last.req.agent_type = "other"
    /\ delegate.agent = "ChatAgent"
    /\ last.body[1].success
    /\ last.body[1].capabilities = <<"chat">>
    /\ constructions = [search |-> 1, chat |-> 1]

====
